---- MODULE Spec2Model ----
(***************************************************************************)
(* ImportController (src/all/background_page/controller/import/            *)
(* importController.js): one import run, from construction to the end of   *)
(* exec(), with the external collaborators (decoder, keyring, encryptAll,  *)
(* FolderModel.create, Resource.import, progressController) as the         *)
(* environment.                                                            *)
(*                                                                         *)
(* JavaScript strings are sequences of one-character strings, so that      *)
(* concatenation, includes(), replace(), split() and the default sort()    *)
(* are computed and not assumed.                                           *)
(***************************************************************************)
EXTENDS Integers, Sequences, FiniteSets, Bags, TLC

(***************************************************************************)
(* Bounds of the model.                                                    *)
(***************************************************************************)
\* csv runs: number of resources of the decoded file.
MaxResources == 11
\* kdbx runs: number of resources of the decoded file.
MaxKdbxResources == 2
\* kdbx runs: number of raw folder paths of the decoded file.
MaxFolders == 6
\* number of FolderModel.create / Resource.import calls that reject in a run.
MaxRejections == 2
\* functions applied on their own: characters of a raw path, items of a list
\* given to prepareBatches, raw folder paths given to _prepareFolders.
MaxPathLen == 12
MaxItems == 12
MaxPaths == 3

(***************************************************************************)
(* Strings.                                                                *)
(***************************************************************************)
\* UTF-16 code units of the characters the model uses (the order sort() uses).
CharCode ==
  [c \in {"-", "/", "0", "1", "2", "3", "4", "5", "6", "7", "8", "9",
          "A", "B", "C", "D", "E", "R",
          "b", "c", "d", "i", "k", "m", "o", "p", "r", "s", "t", "v", "x"} |->
     CASE c = "-" -> 45 [] c = "/" -> 47
       [] c = "0" -> 48 [] c = "1" -> 49 [] c = "2" -> 50 [] c = "3" -> 51
       [] c = "4" -> 52 [] c = "5" -> 53 [] c = "6" -> 54 [] c = "7" -> 55
       [] c = "8" -> 56 [] c = "9" -> 57
       [] c = "A" -> 65 [] c = "B" -> 66 [] c = "C" -> 67 [] c = "D" -> 68
       [] c = "E" -> 69 [] c = "R" -> 82
       [] c = "b" -> 98 [] c = "c" -> 99 [] c = "d" -> 100 [] c = "i" -> 105
       [] c = "k" -> 107 [] c = "m" -> 109 [] c = "o" -> 111 [] c = "p" -> 112
       [] c = "r" -> 114 [] c = "s" -> 115 [] c = "t" -> 116 [] c = "v" -> 118
       [] c = "x" -> 120]

\* a < b in the order of Array.prototype.sort() without comparator
\* (code units, a proper prefix first).
RECURSIVE StrLess(_, _)
StrLess(a, b) ==
  IF b = <<>> THEN FALSE
  ELSE IF a = <<>> THEN TRUE
  ELSE IF Head(a) = Head(b) THEN StrLess(Tail(a), Tail(b))
  ELSE CharCode[Head(a)] < CharCode[Head(b)]

\* String.prototype.startsWith at position i (1-based).
MatchesAt(s, pat, i) ==
  /\ i + Len(pat) - 1 <= Len(s)
  /\ \A k \in 1..Len(pat) : s[i + k - 1] = pat[k]

\* String.prototype.indexOf, 1-based; 0 when pat does not occur.
RECURSIVE IndexFrom(_, _, _)
IndexFrom(s, pat, i) ==
  IF i + Len(pat) - 1 > Len(s) THEN 0
  ELSE IF MatchesAt(s, pat, i) THEN i
  ELSE IndexFrom(s, pat, i + 1)

\* String.prototype.includes.
Includes(s, pat) == IndexFrom(s, pat, 1) # 0

\* String.prototype.replace with a string pattern: the first occurrence only.
ReplaceFirst(s, pat, by) ==
  LET i == IndexFrom(s, pat, 1)
  IN IF i = 0 THEN s
     ELSE SubSeq(s, 1, i - 1) \o by \o SubSeq(s, i + Len(pat), Len(s))

\* String.prototype.split('/'): always at least one segment.
RECURSIVE Split(_)
Split(s) ==
  LET i == IndexFrom(s, <<"/">>, 1)
  IN IF i = 0 THEN <<s>>
     ELSE <<SubSeq(s, 1, i - 1)>> \o Split(SubSeq(s, i + 1, Len(s)))

\* Array.prototype.join('/').
RECURSIVE Join(_)
Join(segs) ==
  IF segs = <<>> THEN <<>>
  ELSE IF Len(segs) = 1 THEN segs[1]
  ELSE segs[1] \o <<"/">> \o Join(Tail(segs))

\* Number.prototype.toString of a natural number.
DigitChar(d) ==
  CASE d = 0 -> "0" [] d = 1 -> "1" [] d = 2 -> "2" [] d = 3 -> "3"
    [] d = 4 -> "4" [] d = 5 -> "5" [] d = 6 -> "6" [] d = 7 -> "7"
    [] d = 8 -> "8" [] d = 9 -> "9"

RECURSIVE NumToString(_)
NumToString(n) ==
  IF n < 10 THEN <<DigitChar(n)>>
  ELSE NumToString(n \div 10) \o <<DigitChar(n % 10)>>

\* String.prototype.slice(-2).
SliceLast2(s) == IF Len(s) <= 2 THEN s ELSE SubSeq(s, Len(s) - 1, Len(s))

\* Array.prototype.sort() without comparator (insertion into a sorted list).
RECURSIVE SortInsert(_, _)
SortInsert(sorted, p) ==
  IF sorted = <<>> THEN <<p>>
  ELSE IF StrLess(p, Head(sorted)) THEN <<p>> \o sorted
  ELSE <<Head(sorted)>> \o SortInsert(Tail(sorted), p)

RECURSIVE Sort(_)
Sort(list) ==
  IF list = <<>> THEN <<>>
  ELSE SortInsert(Sort(SubSeq(list, 1, Len(list) - 1)), list[Len(list)])

\* Array.prototype.includes on a list.
ListIncludes(list, x) == \E i \in 1..Len(list) : list[i] = x

\* The characters of a file type.
FileTypeString(fileType) ==
  IF fileType = "kdbx" THEN <<"k", "d", "b", "x">> ELSE <<"c", "s", "v">>

(***************************************************************************)
(* The controller's pure functions.                                        *)
(***************************************************************************)
\* _generateUniqueImportTag: today is what new Date() gives
\* (getMonth() is 0..11).
_generateUniqueImportTag(fileType, today) ==
  <<"i", "m", "p", "o", "r", "t", "-">> \o FileTypeString(fileType) \o <<"-">>
    \o NumToString(today.year)
    \o SliceLast2(<<"0">> \o NumToString(today.month + 1))
    \o SliceLast2(<<"0">> \o NumToString(today.date))
    \o NumToString(today.hours)
    \o NumToString(today.minutes)
    \o NumToString(today.seconds)

\* _getConsolidatedPath without the test path === '/'.
_getConsolidatedPathNoSlashCase(path, tag) ==
  IF path = <<>> THEN <<"/">> \o tag
  ELSE IF Includes(path, <<"/", "R", "o", "o", "t", "/">>)
    THEN ReplaceFirst(path, <<"/", "R", "o", "o", "t", "/">>,
                      <<"/">> \o tag \o <<"/">>)
  ELSE <<"/">> \o tag \o <<"/">> \o path

\* _getConsolidatedPath (this.uniqueImportTag passed as tag).
_getConsolidatedPath(path, tag) ==
  IF path = <<>> \/ path = <<"/">> THEN <<"/">> \o tag
  ELSE IF Includes(path, <<"/", "R", "o", "o", "t", "/">>)
    THEN ReplaceFirst(path, <<"/", "R", "o", "o", "t", "/">>,
                      <<"/">> \o tag \o <<"/">>)
  ELSE <<"/">> \o tag \o <<"/">> \o path

\* _prepareFolders without the sort() of line 210.
_prepareFoldersUnsorted(foldersPaths, tag) ==
  LET mapped == [i \in 1..Len(foldersPaths) |->
                   _getConsolidatedPath(foldersPaths[i], tag)]
      rootPath == _getConsolidatedPath(<<"/">>, tag)
  IN IF ~ListIncludes(mapped, rootPath) THEN <<rootPath>> \o mapped ELSE mapped

\* _prepareFolders: the new value of this.items.foldersPaths.
_prepareFolders(foldersPaths, tag) ==
  LET mapped == [i \in 1..Len(foldersPaths) |->
                   _getConsolidatedPath(foldersPaths[i], tag)]
      rootPath == _getConsolidatedPath(<<"/">>, tag)
      withRoot == IF ~ListIncludes(mapped, rootPath)
                  THEN <<rootPath>> \o mapped
                  ELSE mapped
  IN Sort(withRoot)

\* prepareBatches: the loop "for (i = 0, j = 0; i < chunks; i++, j += size)"
\* with chunks = items.length / size a real number: i < chunks is
\* i * size < items.length. slice(j, j + size) stops at the end of the list.
RECURSIVE prepareBatchesLoop(_, _, _, _)
prepareBatchesLoop(list, size, i, j) ==
  IF i * size < Len(list)
  THEN <<SubSeq(list, j + 1, IF j + size < Len(list) THEN j + size ELSE Len(list))>>
         \o prepareBatchesLoop(list, size, i + 1, j + size)
  ELSE <<>>

\* prepareBatches with chunks = Math.floor(items.length / size).
prepareBatchesFloor(list, size) ==
  [b \in 1..(Len(list) \div size) |-> SubSeq(list, (b - 1) * size + 1, b * size)]

prepareBatches(list, size) == prepareBatchesLoop(list, size, 0, 0)

\* saveFolder, lines 257-259: folderPath.replace(/^\//, '').split('/').
folderSplit(folderPath) ==
  Split(IF folderPath # <<>> /\ Head(folderPath) = "/"
        THEN Tail(folderPath) ELSE folderPath)

\* folderName = folderSplit.pop().
folderNameOf(folderPath) ==
  LET segs == folderSplit(folderPath) IN segs[Len(segs)]

\* folderParent = rest.length ? "/" + rest.join("/") : "".
folderParentOf(folderPath) ==
  LET segs == folderSplit(folderPath)
      rest == SubSeq(segs, 1, Len(segs) - 1)
  IN IF Len(rest) # 0 THEN <<"/">> \o Join(rest) ELSE <<>>

\* Object fields: delete obj[f] and obj[f] = v.
Delete(obj, f) == [k \in DOMAIN obj \ {f} |-> obj[k]]
Put(obj, f, v) == [k \in DOMAIN obj \cup {f} |-> IF k = f THEN v ELSE obj[k]]

\* _prepareResources: each resource gets userId and message, loses secretClear.
_prepareResources(list, userId) ==
  [i \in 1..Len(list) |->
     Delete(Put(Put(list[i], "userId", userId), "message", list[i].secretClear),
            "secretClear")]

\* _enrichResourcesWithArmoredSecret without the test of line 405: secrets is
\* attached whatever the message is.
_enrichResourcesAlwaysSecrets(list, armoredSecrets) ==
  [i \in 1..Len(list) |->
     Delete(Delete(Put(list[i], "secrets", <<[data |-> armoredSecrets[i]]>>),
                   "message"), "userId")]

\* _enrichResourcesWithArmoredSecret with the deletes of lines 413-414 moved
\* into the branch of line 405.
_enrichResourcesStripsInBranch(list, armoredSecrets) ==
  [i \in 1..Len(list) |->
     IF list[i].message # ""
     THEN Delete(Delete(Put(list[i], "secrets", <<[data |-> armoredSecrets[i]]>>),
                        "message"), "userId")
     ELSE list[i]]

\* _enrichResourcesWithArmoredSecret, the loop of lines 404-415 (the lengths
\* are equal when it runs).
_enrichResourcesWithArmoredSecret(list, armoredSecrets) ==
  [i \in 1..Len(list) |->
     LET withSecrets ==
           IF list[i].message # ""
           THEN Put(list[i], "secrets", <<[data |-> armoredSecrets[i]]>>)
           ELSE list[i]
     IN Delete(Delete(withSecrets, "message"), "userId")]

(***************************************************************************)
(* State.                                                                  *)
(***************************************************************************)
VARIABLES
  \* constructor arguments and fields of the controller
  fileType, options, uniqueImportTag, batchSize, batchCount, itemsCount,
  operationsCount, currentOperationNumber, currentBatchNumber,
  currentItemNumber, folders, items,
  \* what the decoder yields for fileB64Content
  file,
  \* position of exec(), and the locals of exec / processBatches / importBatch
  pc, stage, batches, batchIndex, batchResults, importResults,
  foldersResult, result,
  \* worker promises already resolved whose then-handler has not run yet
  microtasks,
  \* FolderModel.create / Resource.import calls that have not settled
  outstanding,
  \* number of completion callbacks encryptAll has made
  encryptDone,
  \* how the encryption stage ended: "none" while it has not
  encryption,
  \* the collaborators' view of the run
  progress, openTotal, closeCalls, createFolderCalls, createResourceCalls,
  workerCalls,
  \* the FolderModel.create calls that have resolved: path and entity returned
  folderReturns,
  \* the arguments of the loadDb calls made to the decoder
  decoderCalls,
  \* the step values passed to progressController.update, in call order
  updateCalls,
  \* number of creation calls the server has rejected
  rejections,
  \* argument and value of a function applied on its own
  arg, ret

ctrlVars == <<fileType, options, uniqueImportTag, batchSize, file>>
counterVars == <<batchCount, itemsCount, operationsCount, currentOperationNumber,
                 currentBatchNumber, currentItemNumber>>
loopVars == <<stage, batches, batchIndex, batchResults, importResults,
              foldersResult, result>>
callVars == <<createFolderCalls, createResourceCalls, workerCalls, folderReturns,
              decoderCalls>>

progressVars == <<progress, openTotal, closeCalls, updateCalls>>
pureVars == <<arg, ret>>
encVars == <<encryptDone, encryption>>
vars == <<ctrlVars, counterVars, loopVars, callVars, progressVars, pureVars,
          encVars, folders, items, pc, microtasks, outstanding, rejections>>

\* JavaScript's undefined, where an object is expected.
Undefined == [undefined |-> TRUE]

\* {created: [], errors: []}. The lists are kept as bags: the order of a list
\* is the order in which the calls of a batch settle.
EmptyResults == [created |-> EmptyBag, errors |-> EmptyBag]

Push(list, x) == list (+) SetToBag({x})

(***************************************************************************)
(* Inputs.                                                                 *)
(***************************************************************************)
\* The time of construction in the run specification.
RunDate == [year |-> 2024, month |-> 0, date |-> 1,
            hours |-> 12, minutes |-> 30, seconds |-> 45]

\* Raw folder paths a decoded kdbx file may list, in the decoder's order.
RawPathPool ==
  << <<"D">>, <<"B">>, <<"/", "R", "o", "o", "t", "/", "A">>,
     <<"A", "/", "B">>, <<"A">>, <<"/">>, <<>> >>

\* folderParentPath and secretClear of the i-th decoded resource.
ParentPathOf(i) ==
  CASE i % 4 = 1 -> <<>>
    [] i % 4 = 2 -> <<"D">>
    [] i % 4 = 3 -> <<"A", "/", "B">>
    [] OTHER -> <<"E">>

SecretOf(i) == IF i % 2 = 0 THEN "" ELSE "secret"

ResourceList(n) ==
  [i \in 1..n |-> [name |-> i, secretClear |-> SecretOf(i),
                   folderParentPath |-> ParentPathOf(i)]]

\* The sub-list of RawPathPool at the positions in chosen.
RECURSIVE PickPaths(_, _)
PickPaths(chosen, i) ==
  IF i > Len(RawPathPool) THEN <<>>
  ELSE (IF i \in chosen THEN <<RawPathPool[i]>> ELSE <<>>)
         \o PickPaths(chosen, i + 1)

KdbxFiles ==
  { [resources |-> ResourceList(n), foldersPaths |-> PickPaths(chosen, 1)] :
      n \in 0..MaxKdbxResources,
      chosen \in {c \in SUBSET (1..Len(RawPathPool)) : Cardinality(c) <= MaxFolders} }

CsvFiles ==
  { [resources |-> ResourceList(n), foldersPaths |-> <<>>] : n \in 0..MaxResources }

(***************************************************************************)
(* Construction.                                                           *)
(***************************************************************************)
\* constructor, lines 43-89.
Constructor(ft, opts, today) ==
  /\ fileType = ft
  /\ options = opts
  /\ uniqueImportTag = _generateUniqueImportTag(ft, today)
  /\ batchSize = 5
  /\ batchCount = 0
  /\ itemsCount = 0
  /\ operationsCount = 0
  /\ currentOperationNumber = 0
  /\ currentBatchNumber = 0
  /\ currentItemNumber = 0
  /\ folders = << >>
  /\ items = [resources |-> <<>>, foldersPaths |-> <<>>]

\* Nothing of exec() has run.
NotStarted ==
  /\ stage = "none"
  /\ batches = <<>>
  /\ batchIndex = 0
  /\ batchResults = EmptyResults
  /\ importResults = EmptyResults
  /\ foldersResult = Undefined
  /\ result = Undefined
  /\ microtasks = <<>>
  /\ outstanding = {}
  /\ encryptDone = 0
  /\ encryption = "none"
  /\ progress = "none"
  /\ openTotal = 0
  /\ closeCalls = 0
  /\ updateCalls = <<>>
  /\ createFolderCalls = <<>>
  /\ createResourceCalls = <<>>
  /\ workerCalls = <<>>
  /\ folderReturns = {}
  /\ decoderCalls = <<>>
  /\ rejections = 0

Init ==
  /\ \E ft \in {"kdbx", "csv"}, importFolders \in BOOLEAN,
        keyFile \in {"null", "b64"} :
       /\ ft = "csv" => keyFile = "null"
       /\ Constructor(ft,
            [importFolders |-> importFolders,
             credentials |-> [password |-> "password", keyFile |-> keyFile]],
            RunDate)
       /\ file \in (IF ft = "kdbx" THEN KdbxFiles ELSE CsvFiles)
  /\ NotStarted
  /\ pc = "exec"
  /\ arg = <<>>
  /\ ret = <<>>

(***************************************************************************)
(* exec(), up to the persistence stages.                                   *)
(***************************************************************************)
\* exec() rejects outside its try block (lines 96-105): no catch runs.
ExecRejectsEarly ==
  /\ pc' = "failed"
  /\ UNCHANGED <<ctrlVars, counterVars, loopVars, createFolderCalls,
                 createResourceCalls, workerCalls, folderReturns, progressVars,
                 pureVars, folders, items, microtasks, outstanding, encVars,
                 rejections>>

\* initFromKdbx. With a key file, line 153 assigns to the undeclared name
\* credentials: a ReferenceError, before the decoder is reached.
InitFromKdbx ==
  /\ pc = "exec"
  /\ fileType = "kdbx"
  /\ IF options.credentials.keyFile # "null"
     THEN ExecRejectsEarly /\ UNCHANGED decoderCalls
     ELSE /\ decoderCalls' = Append(decoderCalls,
                                    [password |-> options.credentials.password,
                                     keyFile |-> options.credentials.keyFile])
          /\ \/ /\ items' = file
                /\ pc' = "decoded"
                /\ UNCHANGED <<ctrlVars, counterVars, loopVars, createFolderCalls,
                               createResourceCalls, workerCalls, folderReturns,
                               progressVars, pureVars, folders, microtasks,
                               outstanding, encVars, rejections>>
             \/ ExecRejectsEarly

\* initFromCsv: only items.resources is set.
InitFromCsv ==
  /\ pc = "exec"
  /\ fileType = "csv"
  /\ decoderCalls' = Append(decoderCalls, [csv |-> TRUE])
  /\ \/ /\ items' = [items EXCEPT !.resources = file.resources]
        /\ pc' = "decoded"
        /\ UNCHANGED <<ctrlVars, counterVars, loopVars, createFolderCalls,
                       createResourceCalls, workerCalls, folderReturns,
                       progressVars, pureVars, folders, microtasks, outstanding,
                       encVars, rejections>>
     \/ ExecRejectsEarly

\* prepareProgressCounter without the test of line 140: folders are counted
\* whatever options.importFolders is.
prepareProgressCounterAlwaysFolders(ops, resourceCount, folderCount, importFolders) ==
  <<ops + resourceCount * 2 + folderCount, resourceCount + folderCount>>

\* prepareProgressCounter: the new <<operationsCount, itemsCount>>.
prepareProgressCounter(ops, resourceCount, folderCount, importFolders) ==
  IF importFolders
  THEN <<ops + resourceCount * 2 + folderCount, resourceCount + folderCount>>
  ELSE <<ops + resourceCount * 2, resourceCount>>

\* Lines 102-105: _prepareFolders, prepareProgressCounter, progress opened.
PrepareAndOpenProgress ==
  /\ pc = "decoded"
  /\ LET paths == _prepareFolders(items.foldersPaths, uniqueImportTag)
         counts == prepareProgressCounter(operationsCount, Len(items.resources),
                                          Len(paths), options.importFolders)
     IN /\ items' = [items EXCEPT !.foldersPaths = paths]
        /\ operationsCount' = counts[1]
        /\ itemsCount' = counts[2]
        /\ progress' = "open"
        /\ openTotal' = counts[1]
  /\ pc' = "opened"
  /\ UNCHANGED <<ctrlVars, batchCount, currentOperationNumber, currentBatchNumber,
                 currentItemNumber, loopVars, callVars, closeCalls, updateCalls, pureVars,
                 folders, microtasks, outstanding, encVars, rejections>>

\* encryptSecretsAndAddToResources up to "await keyring.sync()".
EncryptSecretsAndAddToResources ==
  /\ pc = "opened"
  /\ operationsCount' = Len(items.resources) * 2
  /\ pc' = "syncing"
  /\ UNCHANGED <<ctrlVars, batchCount, itemsCount, currentOperationNumber,
                 currentBatchNumber, currentItemNumber, loopVars, callVars,
                 progressVars, pureVars, folders, items, microtasks, outstanding,
                 encVars, rejections>>

\* The throw reaches exec's catch block.
ToCatch ==
  /\ pc' = "catch"
  /\ UNCHANGED <<ctrlVars, counterVars, loopVars, callVars, progressVars,
                 pureVars, folders, items, microtasks, outstanding, encryptDone, rejections>>

\* keyring.sync() rejects.
KeyringSyncFails ==
  /\ pc = "syncing"
  /\ encryption' = "syncFailed"
  /\ ToCatch

\* keyring.sync() resolves; _encryptSecretsForUser calls encryptAll.
EncryptSecretsForUser ==
  /\ pc = "syncing"
  /\ items' = [items EXCEPT !.resources = _prepareResources(@, "user")]
  /\ pc' = "encrypting"
  /\ UNCHANGED <<ctrlVars, counterVars, loopVars, callVars, progressVars,
                 pureVars, folders, microtasks, outstanding, encVars, rejections>>

\* encryptAll encrypts the next message: the start callback (line 391) passes
\* currentOperationNumber to update, then the completion callback (line 387)
\* passes it again and increments it after (currentOperationNumber++).
EncryptOne ==
  /\ pc = "encrypting"
  /\ encryptDone < Len(items.resources)
  /\ encryptDone' = encryptDone + 1
  /\ updateCalls' = updateCalls \o <<currentOperationNumber, currentOperationNumber>>
  /\ currentOperationNumber' = currentOperationNumber + 1
  /\ UNCHANGED <<ctrlVars, batchCount, itemsCount, operationsCount,
                 currentBatchNumber, currentItemNumber, loopVars, callVars,
                 progress, openTotal, closeCalls, pureVars, folders, items, pc, microtasks,
                 outstanding, encryption, rejections>>

\* encryptAll rejects.
EncryptAllFails ==
  /\ pc = "encrypting"
  /\ encryption' = "encryptFailed"
  /\ ToCatch

\* _enrichResourcesWithArmoredSecret without the length check of line 401.
EnrichResourcesUnchecked(armoredSecrets) ==
  /\ pc = "encrypting"
  /\ encryptDone = Len(items.resources)
  /\ encryption' = IF Len(armoredSecrets) = Len(items.resources)
                   THEN "done" ELSE "mismatch"
  /\ pc' = "encrypted"
  /\ UNCHANGED <<ctrlVars, counterVars, loopVars, callVars, progressVars,
                 pureVars, folders, items, microtasks, outstanding, encryptDone,
                 rejections>>

\* encryptAll resolves with a list of armored secrets;
\* _enrichResourcesWithArmoredSecret checks its length.
EnrichResources(armoredSecrets) ==
  /\ pc = "encrypting"
  /\ encryptDone = Len(items.resources)
  /\ encryption' = IF Len(armoredSecrets) = Len(items.resources)
                   THEN "done" ELSE "mismatch"
  /\ IF Len(armoredSecrets) # Len(items.resources)
     THEN ToCatch
     ELSE /\ items' = [items EXCEPT !.resources =
                         _enrichResourcesWithArmoredSecret(@, armoredSecrets)]
          /\ pc' = "encrypted"
          /\ UNCHANGED <<ctrlVars, counterVars, loopVars, callVars, progressVars,
                         pureVars, folders, microtasks, outstanding, encryptDone, rejections>>

\* The lists encryptAll may resolve with: one payload per message, one less
\* or one more.
ArmoredLists(n) ==
  { [i \in 1..len |-> [armored |-> i]] : len \in {n - 1, n, n + 1} \cap Nat }

EncryptAllResolves ==
  \E armoredSecrets \in ArmoredLists(Len(items.resources)) :
    EnrichResources(armoredSecrets)

(***************************************************************************)
(* The workers: saveFolder and saveResource up to their external call.     *)
(***************************************************************************)
\* getFolderFromPath.
getFolderFromPath(registry, path) ==
  IF path \in DOMAIN registry THEN registry[path] ELSE Undefined

\* saveFolder without the early return of lines 263-265: a folder whose
\* parent is not in the registry is created without folderParentId.
saveFolderWithoutSkip(folderPath, registry) ==
  LET folderName == folderNameOf(folderPath)
      folderParent == folderParentOf(folderPath)
      parentFolder == getFolderFromPath(registry, folderParent)
  IN IF folderParent # <<>> /\ parentFolder # Undefined
     THEN [skip |-> FALSE,
           entity |-> [name |-> folderName, folderParentId |-> parentFolder.id]]
     ELSE [skip |-> FALSE, entity |-> [name |-> folderName]]

\* saveFolder, lines 256-269: either the early return (skip), or the entity
\* passed to FolderModel.create.
saveFolder(folderPath, registry) ==
  LET folderName == folderNameOf(folderPath)
      folderParent == folderParentOf(folderPath)
      parentFolder == getFolderFromPath(registry, folderParent)
  IN IF folderParent # <<>>
     THEN IF parentFolder = Undefined
          THEN [skip |-> TRUE]
          ELSE [skip |-> FALSE,
                entity |-> [name |-> folderName, folderParentId |-> parentFolder.id]]
     ELSE [skip |-> FALSE, entity |-> [name |-> folderName]]

\* saveResource looking up resource.folderParentPath as it is, without
\* _getConsolidatedPath (line 278).
saveResourceRawPath(resource, registry, importFolders, tag) ==
  LET folderExist == getFolderFromPath(registry, resource.folderParentPath)
  IN IF importFolders /\ folderExist # Undefined
     THEN Put(resource, "folder_parent_id", folderExist.id)
     ELSE resource

\* saveResource, lines 278-282: the resource passed to Resource.import.
saveResource(resource, registry, importFolders, tag) ==
  LET folderPath == _getConsolidatedPath(resource.folderParentPath, tag)
      folderExist == getFolderFromPath(registry, folderPath)
  IN IF importFolders /\ folderExist # Undefined
     THEN Put(resource, "folder_parent_id", folderExist.id)
     ELSE resource

(***************************************************************************)
(* processBatches and importBatch.                                         *)
(***************************************************************************)
\* prepareBatches on a list, then the start of processBatches.
StartBatches(list, name) ==
  /\ batches' = prepareBatches(list, batchSize)
  /\ batchCount' = batchCount + Len(batches')
  /\ stage' = name
  /\ batchIndex' = 1
  /\ batchResults' = EmptyResults
  /\ pc' = "loop"
  /\ UNCHANGED <<ctrlVars, itemsCount, operationsCount, currentOperationNumber,
                 currentBatchNumber, currentItemNumber, importResults, result,
                 callVars, progressVars, pureVars, folders, items, microtasks,
                 outstanding, encVars, rejections>>

\* exec without the test of line 109: the folder stage runs whatever
\* options.importFolders is.
ProcessFolderBatchesAlways ==
  /\ pc = "encrypted"
  /\ StartBatches(items.foldersPaths, "folders")
  /\ UNCHANGED foldersResult

\* exec, lines 109-112.
ProcessFolderBatches ==
  /\ pc = "encrypted"
  /\ options.importFolders
  /\ StartBatches(items.foldersPaths, "folders")
  /\ UNCHANGED foldersResult

\* exec, lines 114-115.
ProcessResourceBatches ==
  /\ \/ pc = "encrypted" /\ ~options.importFolders
     \/ pc = "foldersDone"
  /\ StartBatches(items.resources, "resources")
  /\ UNCHANGED foldersResult

\* The positions of a batch whose worker reaches its external call.
CalledPositions(batch) ==
  SelectSeq([k \in 1..Len(batch) |-> k],
            LAMBDA k : stage = "resources" \/ ~saveFolder(batch[k], folders).skip)

SkippedPositions(batch) ==
  SelectSeq([k \in 1..Len(batch) |-> k],
            LAMBDA k : stage = "folders" /\ saveFolder(batch[k], folders).skip)

\* What the worker passes to its external call for the item at position k.
Sent(batch, k) ==
  IF stage = "folders"
  THEN saveFolder(batch[k], folders).entity
  ELSE saveResource(batch[k], folders, options.importFolders, uniqueImportTag)

\* The paths the workers of a batch look up in the registry when they are
\* started: saveFolder the parent path (line 262), saveResource the
\* consolidated folderParentPath (lines 278-279).
RegistryLookups(batch) ==
  IF stage = "folders"
  THEN {folderParentOf(batch[k]) : k \in {j \in 1..Len(batch) :
                                            folderParentOf(batch[j]) # <<>>}}
  ELSE {_getConsolidatedPath(batch[k].folderParentPath, uniqueImportTag) :
          k \in 1..Len(batch)}

\* importBatch, lines 295-318: every worker of the batch is started.
ImportBatch ==
  /\ pc = "loop"
  /\ batchIndex <= Len(batches)
  /\ LET batch == batches[batchIndex]
         called == CalledPositions(batch)
         skipped == SkippedPositions(batch)
         firstId == Len(createFolderCalls) + Len(createResourceCalls)
         sent == [r \in 1..Len(called) |-> Sent(batch, called[r])]
         offset == (batchIndex - 1) * batchSize
     IN /\ currentBatchNumber' = currentBatchNumber + 1
        /\ importResults' = EmptyResults
        /\ workerCalls' = workerCalls \o
             [k \in 1..Len(batch) |->
                [stage |-> stage, batch |-> batchIndex, pos |-> k]]
        /\ outstanding' = outstanding \cup
             { [id |-> firstId + r, stage |-> stage,
                batch |-> currentBatchNumber + 1,
                item |-> IF stage = "folders" THEN batch[called[r]] ELSE sent[r],
                sent |-> sent[r]] : r \in 1..Len(called) }
        /\ microtasks' = microtasks \o
             [r \in 1..Len(skipped) |-> [value |-> Undefined]]
        /\ IF stage = "folders"
           THEN /\ createFolderCalls' = createFolderCalls \o sent
                /\ UNCHANGED <<createResourceCalls, items>>
           ELSE /\ createResourceCalls' = createResourceCalls \o sent
                /\ items' = [items EXCEPT !.resources =
                     [i \in 1..Len(@) |->
                        IF i - offset \in 1..Len(batch) THEN sent[i - offset] ELSE @[i]]]
                /\ UNCHANGED createFolderCalls
  /\ pc' = "awaitBatch"
  /\ UNCHANGED <<ctrlVars, batchCount, itemsCount, operationsCount,
                 currentOperationNumber, currentItemNumber, stage, batches,
                 batchIndex, batchResults, foldersResult, result, progressVars,
                 pureVars, folders, folderReturns, decoderCalls, encVars,
                 rejections>>

\* The then-handler of lines 303-308.
ThenHandler(value) ==
  /\ currentItemNumber' = currentItemNumber + 1
  /\ currentOperationNumber' = currentOperationNumber + 1
  /\ updateCalls' = Append(updateCalls, currentOperationNumber + 1)
  /\ importResults' = [importResults EXCEPT !.created = Push(@, value)]

\* The catch-handler without the increments of lines 310-311.
CatchHandlerWithoutCount(message, item) ==
  /\ UNCHANGED <<currentItemNumber, currentOperationNumber>>
  /\ updateCalls' = Append(updateCalls, currentOperationNumber)
  /\ importResults' = [importResults EXCEPT !.errors =
                         Push(@, [error |-> message, resource |-> item])]

\* The catch-handler of lines 309-317 for an error e with e.header.message.
CatchHandler(message, item) ==
  /\ currentItemNumber' = currentItemNumber + 1
  /\ currentOperationNumber' = currentOperationNumber + 1
  /\ updateCalls' = Append(updateCalls, currentOperationNumber + 1)
  /\ importResults' = [importResults EXCEPT !.errors =
                         Push(@, [error |-> message, resource |-> item])]

\* The catch-handler for an error without header: the counters are advanced,
\* then e.header.message throws, so the promise of the item rejects and
\* Promise.all of line 320 rejects with it.
CatchHandlerThrows ==
  /\ currentItemNumber' = currentItemNumber + 1
  /\ currentOperationNumber' = currentOperationNumber + 1
  /\ updateCalls' = Append(updateCalls, currentOperationNumber + 1)
  /\ pc' = IF pc = "awaitBatch" THEN "catch" ELSE pc
  /\ UNCHANGED importResults

\* A worker that returned without an external call has resolved: its
\* then-handler runs.
ThenOfResolvedWorker ==
  /\ microtasks # <<>>
  /\ ThenHandler(Head(microtasks).value)
  /\ microtasks' = Tail(microtasks)
  /\ UNCHANGED <<ctrlVars, batchCount, itemsCount, operationsCount,
                 currentBatchNumber, stage, batches, batchIndex, batchResults,
                 foldersResult, result, callVars, progress, openTotal, closeCalls, pureVars,
                 folders, items, pc, outstanding, encVars, rejections>>

\* An external call may settle when no microtask is ready to run.
MaySettle(c) ==
  /\ c \in outstanding
  /\ microtasks = <<>>
  /\ pc \in {"awaitBatch", "rethrow", "failed"}

\* FolderModel.create resolves: saveFolder, lines 271-273, then the
\* then-handler.
FolderCreated(c) ==
  /\ MaySettle(c)
  /\ c.stage = "folders"
  /\ LET entity == Put(c.sent, "id", c.id)
     IN /\ folders' = Put(folders, c.item, entity)
        /\ folderReturns' = folderReturns \cup {[path |-> c.item, entity |-> entity]}
        /\ ThenHandler(entity)
  /\ outstanding' = outstanding \ {c}
  /\ UNCHANGED <<ctrlVars, batchCount, itemsCount, operationsCount,
                 currentBatchNumber, stage, batches, batchIndex, batchResults,
                 foldersResult, result, createFolderCalls, createResourceCalls,
                 workerCalls, decoderCalls, progress, openTotal, closeCalls, pureVars, items, pc,
                 microtasks, encVars, rejections>>

\* Resource.import resolves: the then-handler.
ResourceCreated(c) ==
  /\ MaySettle(c)
  /\ c.stage = "resources"
  /\ ThenHandler([id |-> c.id, name |-> c.sent.name])
  /\ outstanding' = outstanding \ {c}
  /\ UNCHANGED <<ctrlVars, batchCount, itemsCount, operationsCount,
                 currentBatchNumber, stage, batches, batchIndex, batchResults,
                 foldersResult, result, callVars, progress, openTotal, closeCalls, pureVars,
                 folders, items, pc, microtasks, encVars, rejections>>

\* The external call rejects with an API error (header.message present).
CallRejected(c) ==
  /\ MaySettle(c)
  /\ rejections < MaxRejections
  /\ rejections' = rejections + 1
  /\ CatchHandler("message", c.item)
  /\ outstanding' = outstanding \ {c}
  /\ UNCHANGED <<ctrlVars, batchCount, itemsCount, operationsCount,
                 currentBatchNumber, stage, batches, batchIndex, batchResults,
                 foldersResult, result, callVars, progress, openTotal, closeCalls, pureVars,
                 folders, items, pc, microtasks, encVars>>

\* The external call rejects with an error that has no header (a network
\* failure, a TypeError).
CallRejectedWithoutHeader(c) ==
  /\ MaySettle(c)
  /\ rejections < MaxRejections
  /\ rejections' = rejections + 1
  /\ CatchHandlerThrows
  /\ outstanding' = outstanding \ {c}
  /\ UNCHANGED <<ctrlVars, batchCount, itemsCount, operationsCount,
                 currentBatchNumber, stage, batches, batchIndex, batchResults,
                 foldersResult, result, callVars, progress, openTotal, closeCalls, pureVars,
                 folders, items, microtasks, encVars>>

\* importBatch without the await of line 320.
AllSettledNotAwaited == TRUE

\* Whether Promise.all of line 320 resolves.
AllSettled == outstanding = {} /\ microtasks = <<>>

\* processBatches keeping only the results of the batch that joined last.
JoinBatchOverwrites ==
  /\ pc = "awaitBatch"
  /\ outstanding = {}
  /\ microtasks = <<>>
  /\ batchResults' = importResults
  /\ batchIndex' = batchIndex + 1
  /\ pc' = "loop"
  /\ UNCHANGED <<ctrlVars, counterVars, stage, batches, importResults,
                 foldersResult, result, callVars, progressVars, pureVars,
                 folders, items, microtasks, outstanding, encVars, rejections>>

\* processBatches, lines 362-364: the batch has joined, its results are
\* appended.
JoinBatch ==
  /\ pc = "awaitBatch"
  /\ AllSettled
  /\ batchResults' = [created |-> batchResults.created (+) importResults.created,
                      errors |-> batchResults.errors (+) importResults.errors]
  /\ batchIndex' = batchIndex + 1
  /\ pc' = "loop"
  /\ UNCHANGED <<ctrlVars, counterVars, stage, batches, importResults,
                 foldersResult, result, callVars, progressVars, pureVars,
                 folders, items, microtasks, outstanding, encVars, rejections>>

\* processBatches returns to exec line 111: folders is set.
FoldersProcessed ==
  /\ pc = "loop"
  /\ batchIndex > Len(batches)
  /\ stage = "folders"
  /\ foldersResult' = batchResults
  /\ pc' = "foldersDone"
  /\ UNCHANGED <<ctrlVars, counterVars, stage, batches, batchIndex, batchResults,
                 importResults, result, callVars, progressVars, pureVars,
                 folders, items, microtasks, outstanding, encVars, rejections>>

\* processBatches returns to exec line 115; line 117 closes the progress.
ResourcesProcessed ==
  /\ pc = "loop"
  /\ batchIndex > Len(batches)
  /\ stage = "resources"
  /\ progress' = "closed"
  /\ closeCalls' = closeCalls + 1
  /\ pc' = "closing"
  /\ UNCHANGED <<ctrlVars, counterVars, loopVars, callVars, openTotal, updateCalls, pureVars,
                 folders, items, microtasks, outstanding, encVars, rejections>>

\* exec, lines 119-125.
ExecReturns ==
  /\ pc = "closing"
  /\ result' = [resources |-> batchResults, folders |-> foldersResult,
                importTag |-> uniqueImportTag]
  /\ pc' = "done"
  /\ UNCHANGED <<ctrlVars, counterVars, stage, batches, batchIndex, batchResults,
                 importResults, foldersResult, callVars, progressVars, pureVars,
                 folders, items, microtasks, outstanding, encVars, rejections>>

\* exec's catch block without line 127.
CatchWithoutClose ==
  /\ pc = "catch"
  /\ pc' = "rethrow"
  /\ UNCHANGED <<ctrlVars, counterVars, loopVars, callVars, progressVars,
                 pureVars, folders, items, microtasks, outstanding, encVars,
                 rejections>>

\* exec, line 127.
CatchClosesProgress ==
  /\ pc = "catch"
  /\ progress' = "closed"
  /\ closeCalls' = closeCalls + 1
  /\ pc' = "rethrow"
  /\ UNCHANGED <<ctrlVars, counterVars, loopVars, callVars, openTotal, updateCalls, pureVars,
                 folders, items, microtasks, outstanding, encVars, rejections>>

\* exec, line 128.
ExecRethrows ==
  /\ pc = "rethrow"
  /\ pc' = "failed"
  /\ UNCHANGED <<ctrlVars, counterVars, loopVars, callVars, progressVars,
                 pureVars, folders, items, microtasks, outstanding, encVars, rejections>>

Next ==
  \/ InitFromKdbx
  \/ InitFromCsv
  \/ PrepareAndOpenProgress
  \/ EncryptSecretsAndAddToResources
  \/ KeyringSyncFails
  \/ EncryptSecretsForUser
  \/ EncryptOne
  \/ EncryptAllFails
  \/ EncryptAllResolves
  \/ ProcessFolderBatches
  \/ ProcessResourceBatches
  \/ ImportBatch
  \/ ThenOfResolvedWorker
  \/ \E c \in outstanding : FolderCreated(c)
  \/ \E c \in outstanding : ResourceCreated(c)
  \/ \E c \in outstanding : CallRejected(c)
  \/ \E c \in outstanding : CallRejectedWithoutHeader(c)
  \/ JoinBatch
  \/ FoldersProcessed
  \/ ResourcesProcessed
  \/ ExecReturns
  \/ CatchClosesProgress
  \/ ExecRethrows

Spec == Init /\ [][Next]_vars

(***************************************************************************)
(* Properties of a run.                                                    *)
(***************************************************************************)
\* Number of entries of a result list that are about the resource called name:
\* a created entity of that name, or an {error, resource} entry for it.
CreatedFor(list, name) ==
  BagCardinality([e \in {x \in DOMAIN list : "name" \in DOMAIN x /\ x.name = name}
                    |-> list[e]])

ErrorsFor(list, name) ==
  BagCardinality([e \in {x \in DOMAIN list : x.resource.name = name} |-> list[e]])

\* C1: when exec() returns, the resources result has as many entries as the
\* decoded file has resources, and every resource is in exactly one entry:
\* either its created entity or its {error, resource} entry.
C1_EveryResourceAccountedOnce ==
  pc = "done" =>
    /\ BagCardinality(result.resources.created)
         + BagCardinality(result.resources.errors) = Len(file.resources)
    /\ \A i \in 1..Len(file.resources) :
         CreatedFor(result.resources.created, i)
           + ErrorsFor(result.resources.errors, i) = 1

\* A run of three resource batches that returned with both lists non-empty.
C1_Witness ==
  /\ pc = "done"
  /\ Len(file.resources) > 2 * batchSize
  /\ result.resources.created # EmptyBag
  /\ result.resources.errors # EmptyBag

\* The worker calls made for the item at position k of batch b of the stage
\* that ran last.
WorkerCallsFor(b, k) ==
  {n \in 1..Len(workerCalls) :
     workerCalls[n] = [stage |-> stage, batch |-> b, pos |-> k]}

\* C2: once exec() has settled, the worker was invoked exactly once for every
\* item of every batch of the stage, whichever calls rejected.
C2_EveryItemOfEveryBatchProcessed ==
  (pc \in {"done", "failed"} /\ stage # "none") =>
    \A b \in 1..Len(batches) : \A k \in 1..Len(batches[b]) :
      Cardinality(WorkerCallsFor(b, k)) = 1

\* C3: unless the encryption stage has completed successfully no folder or
\* resource creation call is made, and when the key sync fails, encryptAll
\* fails or the count of armored secrets differs, exec() raises.
C3_NoCreationWithoutEncryption ==
  /\ encryption # "done" =>
       /\ createFolderCalls = <<>>
       /\ createResourceCalls = <<>>
       /\ workerCalls = <<>>
  /\ encryption \in {"syncFailed", "encryptFailed", "mismatch"} =>
       /\ pc \in {"catch", "rethrow", "failed"}
       /\ result = Undefined

\* exec() has raised on a count mismatch, of a file with resources and folders.
C3_Witness ==
  /\ encryption = "mismatch"
  /\ pc = "failed"
  /\ Len(items.resources) >= 2
  /\ Len(items.foldersPaths) >= 2
  /\ options.importFolders

\* C5: every outstanding creation call belongs to the batch started last, so
\* at most batchSize calls are outstanding; and when processBatches is about
\* to start a batch, every worker of the batches before has settled.
C5_BatchesRunOneAfterAnother ==
  /\ \A c \in outstanding : c.batch = currentBatchNumber
  /\ Cardinality(outstanding) <= batchSize
  /\ pc = "loop" => outstanding = {} /\ microtasks = <<>>

\* A third batch is running with a full second batch behind it.
C5_Witness ==
  /\ pc = "awaitBatch"
  /\ batchIndex = 3
  /\ outstanding # {}
  /\ Cardinality({n \in 1..Len(workerCalls) : workerCalls[n].batch = 2}) = batchSize

\* C6: a folder whose creation was skipped has no entry in the folders result:
\* the result holds one entry per FolderModel.create call made.
C6_SkippedFolderInNoList ==
  pc = "done" /\ options.importFolders =>
    BagCardinality(result.folders.created) + BagCardinality(result.folders.errors)
      = Len(createFolderCalls)

\* C10: when exec() has raised after the progress was opened, the progress
\* has been closed and exec() gave no result.
C10_ProgressClosedBeforeRethrow ==
  pc = "failed" /\ progress # "none" =>
    /\ closeCalls >= 1
    /\ progress = "closed"
    /\ result = Undefined

\* exec() has raised in the resource stage, after a batch was joined.
C10_Witness ==
  /\ pc = "failed"
  /\ stage = "resources"
  /\ batchIndex >= 2
  /\ closeCalls = 1

\* C11: the folders field of exec's result is a {created, errors} result
\* exactly when options.importFolders is set, and is undefined when it is not;
\* without options.importFolders no FolderModel.create call is made in the run.
C11_FoldersResultOnlyWhenRequested ==
  /\ pc = "done" =>
       /\ options.importFolders <=> result.folders # Undefined
       /\ options.importFolders => DOMAIN result.folders = {"created", "errors"}
  /\ ~options.importFolders =>
       /\ createFolderCalls = <<>>
       /\ \A n \in 1..Len(workerCalls) : workerCalls[n].stage # "folders"

\* exec() has returned without folder integration, for a file that lists
\* folders and resources.
C11_Witness ==
  /\ pc = "done"
  /\ ~options.importFolders
  /\ Len(file.foldersPaths) >= 2
  /\ Len(createResourceCalls) >= 2
  /\ result.folders = Undefined

\* C12: once the encryption stage has succeeded, resource i has
\* secrets = [{data: p}], p the payload at index i of the list encryptAll
\* resolved with, exactly when its clear secret was not the empty string, and
\* has no secrets field when it was.
C12_SecretsOnlyForNonEmptySecret ==
  encryption = "done" =>
    /\ Len(items.resources) = Len(file.resources)
    /\ \E armoredSecrets \in ArmoredLists(Len(file.resources)) :
         /\ Len(armoredSecrets) = Len(file.resources)
         /\ \A i \in 1..Len(file.resources) :
              IF file.resources[i].secretClear # ""
              THEN /\ "secrets" \in DOMAIN items.resources[i]
                   /\ items.resources[i].secrets = <<[data |-> armoredSecrets[i]]>>
              ELSE "secrets" \notin DOMAIN items.resources[i]

\* The encryption stage has just succeeded on a file with empty and non-empty
\* clear secrets.
C12_Witness ==
  /\ pc = "encrypted"
  /\ encryption = "done"
  /\ \E i, j \in 1..Len(file.resources) :
       /\ file.resources[i].secretClear = ""
       /\ file.resources[j].secretClear # ""
       /\ j > i
       /\ "secrets" \in DOMAIN items.resources[j]

\* C13: every resource passed to Resource.import carries none of the fields
\* message, userId and secretClear.
C13_NoClearTextReachesPersistence ==
  \A n \in 1..Len(createResourceCalls) :
    DOMAIN createResourceCalls[n] \cap {"message", "userId", "secretClear"} = {}

\* Resource.import has been called for a resource that got secrets and for
\* one whose clear secret was empty.
C13_Witness ==
  \E n, m \in 1..Len(createResourceCalls) :
    /\ "secrets" \in DOMAIN createResourceCalls[n]
    /\ "secrets" \notin DOMAIN createResourceCalls[m]
    /\ file.resources[createResourceCalls[m].name].secretClear = ""

\* C14: no step of a run decreases operationsCount, currentOperationNumber
\* or currentItemNumber.
C14_CountersNeverDecrease ==
  [][/\ operationsCount' >= operationsCount
     /\ currentOperationNumber' >= currentOperationNumber
     /\ currentItemNumber' >= currentItemNumber]_vars

\* C15: the total given to progressController.open is operationsCount as it
\* is at that moment, and it is twice the number of resources, plus the number
\* of entries of the consolidated folder list (root included) when
\* options.importFolders is set.
C15_OpenTotal ==
  /\ pc = "opened" => openTotal = operationsCount
  /\ progress # "none" =>
       openTotal = IF options.importFolders
                   THEN 2 * Len(file.resources) + Len(items.foldersPaths)
                   ELSE 2 * Len(file.resources)

\* The progress has just been opened for a run with folder integration, of a
\* file with resources and folders.
C15_Witness ==
  /\ pc = "opened"
  /\ options.importFolders
  /\ Len(file.resources) >= 2
  /\ Len(items.foldersPaths) >= 4
  /\ openTotal >= 8

\* Every path of the list that has a parent path has it in the list.
EveryParentListed(list) ==
  \A i \in 1..Len(list) :
    folderParentOf(list[i]) # <<>> => ListIncludes(list, folderParentOf(list[i]))

\* The root folder path of the run.
RootPath == <<"/">> \o uniqueImportTag

\* C17: when the folder stage ends, if every path of the consolidated list
\* has its parent in the list and no FolderModel.create call has rejected,
\* every path of the list has been created and is in the registry.
C17_EveryListedFolderCreated ==
  (/\ pc = "foldersDone"
   /\ rejections = 0
   /\ EveryParentListed(items.foldersPaths)) =>
    \A i \in 1..Len(items.foldersPaths) : items.foldersPaths[i] \in DOMAIN folders

\* C18: when importBatch starts the workers of a batch, no path that one of
\* them looks up in the registry is the path of a FolderModel.create call
\* that is outstanding once the batch is started (a call of the same batch,
\* made before or after the lookup, or a call left from an earlier batch).
C18_NoLookupOfPathBeingCreated ==
  [][(pc = "loop" /\ pc' = "awaitBatch") =>
       \A path \in RegistryLookups(batches[batchIndex]) :
         ~\E c \in outstanding' : c.stage = "folders" /\ c.item = path]_vars

\* C19: every entry of the registry is the entity a FolderModel.create call
\* for that path resolved with; and every FolderModel.create call made for a
\* path with a parent path carries as folderParentId the id of an entity that
\* a call for the parent path has already resolved with, while a call for a
\* path without parent path (the root) carries no folderParentId.
C19_ParentCreatedBeforeChild ==
  /\ \A path \in DOMAIN folders :
       [path |-> path, entity |-> folders[path]] \in folderReturns
  /\ \A c \in outstanding :
       c.stage = "folders" =>
         IF folderParentOf(c.item) # <<>>
         THEN /\ "folderParentId" \in DOMAIN c.sent
              /\ \E r \in folderReturns :
                   /\ r.path = folderParentOf(c.item)
                   /\ r.entity.id = c.sent.folderParentId
         ELSE /\ c.item = RootPath
              /\ "folderParentId" \notin DOMAIN c.sent

\* FolderModel.create has just been called, in the second batch, for a child
\* of the root folder created in the first.
C19_Witness ==
  /\ pc = "awaitBatch"
  /\ stage = "folders"
  /\ batchIndex = 2
  /\ \E c \in outstanding :
       /\ folderParentOf(c.item) = RootPath
       /\ "folderParentId" \in DOMAIN c.sent
       /\ folders[RootPath].id = c.sent.folderParentId

\* The Resource.import calls made for the resource called name.
ImportCallsFor(name) ==
  {n \in 1..Len(createResourceCalls) : createResourceCalls[n].name = name}

\* C20: a resource passed to Resource.import carries folder_parent_id exactly
\* when options.importFolders is set and a FolderModel.create call for the
\* consolidated form of its folderParentPath has resolved, and the id is the
\* one such a call returned; once exec() has returned every resource has been
\* passed to Resource.import exactly once, linked or not, and the errors of
\* the resources result are no more than the calls that were rejected.
C20_ParentLinkOnlyToCreatedFolder ==
  /\ \A n \in 1..Len(createResourceCalls) :
       LET resource == createResourceCalls[n]
           folderPath == _getConsolidatedPath(resource.folderParentPath,
                                              uniqueImportTag)
           created == {r \in folderReturns : r.path = folderPath}
       IN /\ "folder_parent_id" \in DOMAIN resource
               <=> (options.importFolders /\ created # {})
          /\ "folder_parent_id" \in DOMAIN resource =>
               \E r \in created : r.entity.id = resource.folder_parent_id
  /\ pc = "done" =>
       /\ \A i \in 1..Len(file.resources) : Cardinality(ImportCallsFor(i)) = 1
       /\ BagCardinality(result.resources.errors) <= rejections

\* exec() has returned with folder integration: a resource was linked to the
\* root folder, another was persisted without link because its folder was
\* never created, and nothing is in errors.
C20_Witness ==
  /\ pc = "done"
  /\ options.importFolders
  /\ result.resources.errors = EmptyBag
  /\ \E n, m \in 1..Len(createResourceCalls) :
       /\ createResourceCalls[n].folderParentPath = <<>>
       /\ "folder_parent_id" \in DOMAIN createResourceCalls[n]
       /\ createResourceCalls[n].folder_parent_id = folders[RootPath].id
       /\ createResourceCalls[m].folderParentPath # <<>>
       /\ "folder_parent_id" \notin DOMAIN createResourceCalls[m]

\* exec() has settled: it returned or it raised.
ExecSettled == pc \in {"done", "failed"}

\* C22: a run that has started a persistence batch does not end with exec()
\* raising: whatever calls reject, exec() is still running or has returned,
\* with a result.
C22_RunsToCompletionOncePersisting ==
  /\ workerCalls # <<>> => pc \notin {"catch", "rethrow", "failed"}
  /\ ExecSettled /\ workerCalls # <<>> => result # Undefined

\* C23: once initFromKdbx has run for credentials with a key file, the
\* decoder has been invoked with the password and the key file: exec() has
\* not raised before reaching it.
C23_KeyFileReachesDecoder ==
  (/\ fileType = "kdbx"
   /\ options.credentials.keyFile # "null"
   /\ pc # "exec") =>
    decoderCalls = <<[password |-> options.credentials.password,
                      keyFile |-> options.credentials.keyFile]>>

\* C24: in every state of a run the operations done do not exceed the total
\* the controller holds, and the items done do not exceed itemsCount.
C24_DoneNeverExceedsTotal ==
  /\ currentOperationNumber <= operationsCount
  /\ currentItemNumber <= itemsCount

\* C25: when exec() has returned, currentOperationNumber is the total given
\* to progressController.open and currentItemNumber is itemsCount, each
\* encryption and each worker call (folder created, failed or skipped,
\* resource created or failed) having counted once; and the step values given
\* to progressController.update never decrease and never exceed that total.
C25_CountersReachTotals ==
  /\ pc = "done" =>
       /\ currentOperationNumber = openTotal
       /\ currentItemNumber = itemsCount
       /\ encryptDone = Len(file.resources)
       /\ currentOperationNumber = encryptDone + Len(workerCalls)
       /\ currentItemNumber = Len(workerCalls)
  /\ \A n \in 1..Len(updateCalls) :
       /\ updateCalls[n] <= openTotal
       /\ n > 1 => updateCalls[n - 1] <= updateCalls[n]

\* exec() has returned from a run with folder integration in which a folder
\* was skipped, a call failed and resources were encrypted and created.
C25_Witness ==
  /\ pc = "done"
  /\ options.importFolders
  /\ Len(file.resources) >= 2
  /\ Len(createFolderCalls) < Len(items.foldersPaths)
  /\ rejections >= 1
  /\ result.resources.created # EmptyBag
  /\ updateCalls[Len(updateCalls)] = openTotal

\* The FolderModel.create calls for a path that are outstanding or have
\* resolved.
CreateCallsFor(path) ==
  {c.id : c \in {o \in outstanding : o.stage = "folders" /\ o.item = path}}
    \cup {r.entity.id : r \in {x \in folderReturns : x.path = path}}

\* C26: FolderModel.create is called at most once for a path, so that no
\* entry of the registry is replaced by a second created entity.
C26_CreateFolderOncePerPath ==
  \A i \in 1..Len(items.foldersPaths) :
    Cardinality(CreateCallsFor(items.foldersPaths[i])) <= 1

(***************************************************************************)
(* The controller's functions applied on their own, on a controller that   *)
(* has just been constructed.                                              *)
(***************************************************************************)
DefaultOptions ==
  [importFolders |-> TRUE,
   credentials |-> [password |-> "password", keyFile |-> "null"]]

InitConstructed ==
  /\ \E ft \in {"kdbx", "csv"} : Constructor(ft, DefaultOptions, RunDate)
  /\ file = [resources |-> <<>>, foldersPaths |-> <<>>]
  /\ NotStarted
  /\ pc = "constructed"
  /\ arg = <<>>
  /\ ret = <<>>

\* What no function applied on its own changes.
runVars == <<ctrlVars, itemsCount, operationsCount, currentOperationNumber,
             currentBatchNumber, currentItemNumber, loopVars, callVars,
             progressVars, encVars, folders, microtasks, outstanding, rejections>>

\* One more item in the list that will be given to prepareBatches.
AddItem(x) ==
  /\ pc = "constructed"
  /\ Len(arg) < MaxItems
  /\ arg' = Append(arg, x)
  /\ UNCHANGED <<runVars, batchCount, items, pc, ret>>

\* prepareBatches(arg), lines 331-341.
CallPrepareBatches ==
  /\ pc = "constructed"
  /\ ret' = prepareBatches(arg, batchSize)
  /\ batchCount' = batchCount + Len(ret')
  /\ pc' = "returned"
  /\ UNCHANGED <<runVars, items, arg>>

NextBatches ==
  \/ \E x \in {"a", "b"} : AddItem(x)
  \/ CallPrepareBatches

SpecBatches == InitConstructed /\ [][NextBatches]_vars

\* Array.prototype.concat of all the batches.
RECURSIVE Concat(_)
Concat(lists) ==
  IF lists = <<>> THEN <<>> ELSE Head(lists) \o Concat(Tail(lists))

\* C4: the batches of prepareBatches, concatenated, are the list in its order;
\* every batch has 1..batchSize items; there are ceil(length / batchSize)
\* batches, none for the empty list.
C4_BatchesPartitionTheList ==
  pc = "returned" =>
    /\ batchSize = 5
    /\ Concat(ret) = arg
    /\ \A b \in 1..Len(ret) : Len(ret[b]) >= 1 /\ Len(ret[b]) <= batchSize
    /\ Len(ret) * batchSize >= Len(arg)
    /\ (Len(ret) - 1) * batchSize < Len(arg)

\* A list of 12 items split into batches of 5, 5 and 2 items.
C4_Witness ==
  /\ pc = "returned"
  /\ Len(arg) = 12
  /\ Len(ret) = 3
  /\ Len(ret[3]) = 2
  /\ \E i \in 1..11 : arg[i] # arg[i + 1]

\* Raw paths a decoder may list: relative, with "/Root/" at the start, with a
\* leading "/", with "/Root/" further on.
RawPaths ==
  { <<>>, <<"/">>, <<"A">>, <<"A", "/", "B">>, <<"A", "-">>, <<"B">>,
    <<"/", "R", "o", "o", "t", "/", "A">>, <<"/", "A">>,
    <<"A", "/", "R", "o", "o", "t", "/", "B">> }

\* The decoder lists one more raw folder path.
AddFolderPath(path) ==
  /\ pc = "constructed"
  /\ Len(items.foldersPaths) < MaxPaths
  /\ items' = [items EXCEPT !.foldersPaths = Append(@, path)]
  /\ arg' = items'.foldersPaths
  /\ UNCHANGED <<runVars, batchCount, pc, ret>>

\* _prepareFolders(), lines 200-211.
CallPrepareFolders ==
  /\ pc = "constructed"
  /\ items' = [items EXCEPT !.foldersPaths = _prepareFolders(@, uniqueImportTag)]
  /\ pc' = "returned"
  /\ UNCHANGED <<runVars, batchCount, pureVars>>

NextFolders ==
  \/ \E path \in RawPaths : AddFolderPath(path)
  \/ CallPrepareFolders

SpecFolders == InitConstructed /\ [][NextFolders]_vars

Occurrences(list, x) == Cardinality({i \in 1..Len(list) : list[i] = x})

\* C7: after _prepareFolders the root folder path is in the list exactly once.
C7_RootPathExactlyOnce ==
  pc = "returned" => Occurrences(items.foldersPaths, RootPath) = 1

\* q is p without its last "/segment".
IsParentPath(q, p) ==
  /\ Len(p) > Len(q)
  /\ SubSeq(p, 1, Len(q)) = q
  /\ p[Len(q) + 1] = "/"
  /\ \A k \in (Len(q) + 2)..Len(p) : p[k] # "/"

\* C8: after _prepareFolders every path whose parent path is in the list comes
\* after its parent path.
C8_ParentBeforeChild ==
  pc = "returned" =>
    \A i, j \in 1..Len(items.foldersPaths) :
      IsParentPath(items.foldersPaths[i], items.foldersPaths[j]) => i < j

\* The decoder listed a child before its parent and the root last.
C8_Witness ==
  /\ pc = "returned"
  /\ arg = << <<"A", "/", "B">>, <<"A">>, <<>> >>
  /\ Len(items.foldersPaths) = 3
  /\ IsParentPath(items.foldersPaths[1], items.foldersPaths[2])
  /\ IsParentPath(items.foldersPaths[2], items.foldersPaths[3])

\* "/<tag>", or "/<tag>/" followed by non-empty segments separated by one "/".
IsNormalizedPath(path, tag) ==
  LET root == <<"/">> \o tag
      rest == SubSeq(path, Len(root) + 2, Len(path))
  IN \/ path = root
     \/ /\ MatchesAt(path, root \o <<"/">>, 1)
        /\ \A k \in 1..Len(Split(rest)) : Split(rest)[k] # <<>>

\* C21: after _prepareFolders every path of the list is "/<importTag>" or
\* "/<importTag>/" followed by non-empty segments separated by single "/".
C21_EveryPathNormalized ==
  pc = "returned" =>
    \A i \in 1..Len(items.foldersPaths) :
      IsNormalizedPath(items.foldersPaths[i], uniqueImportTag)

\* One more token at the end of the raw path.
AddToken(token) ==
  /\ pc = "constructed"
  /\ Len(arg) + Len(token) <= MaxPathLen
  /\ arg' = arg \o token
  /\ UNCHANGED <<runVars, batchCount, items, pc, ret>>

\* _getConsolidatedPath(arg), lines 233-247.
CallGetConsolidatedPath ==
  /\ pc = "constructed"
  /\ ret' = _getConsolidatedPath(arg, uniqueImportTag)
  /\ pc' = "returned"
  /\ UNCHANGED <<runVars, batchCount, items, arg>>

NextPath ==
  \/ \E token \in {<<"/">>, <<"A">>, <<"R", "o", "o", "t">>} : AddToken(token)
  \/ CallGetConsolidatedPath

SpecPath == InitConstructed /\ [][NextPath]_vars

RootSegment == <<"/", "R", "o", "o", "t", "/">>

\* The positions of path where "/Root/" occurs.
RootSegmentAt(path) == {i \in 1..Len(path) : MatchesAt(path, RootSegment, i)}

\* C9: _getConsolidatedPath gives "/<tag>" for "" and "/"; else the path with
\* its first "/Root/" replaced by "/<tag>/" when it has one; else
\* "/<tag>/" followed by the path.
C9_ConsolidatedPath ==
  pc = "returned" =>
    IF arg = <<>> \/ arg = <<"/">>
    THEN ret = <<"/">> \o uniqueImportTag
    ELSE IF RootSegmentAt(arg) # {}
    THEN LET first == CHOOSE i \in RootSegmentAt(arg) :
                        \A k \in RootSegmentAt(arg) : i <= k
         IN ret = SubSeq(arg, 1, first - 1) \o <<"/">> \o uniqueImportTag \o <<"/">>
                    \o SubSeq(arg, first + Len(RootSegment), Len(arg))
    ELSE ret = <<"/">> \o uniqueImportTag \o <<"/">> \o arg

\* A path with "/Root/" twice, the first one not at its start.
C9_Witness ==
  /\ pc = "returned"
  /\ Cardinality(RootSegmentAt(arg)) = 2
  /\ 1 \notin RootSegmentAt(arg)

(***************************************************************************)
(* _generateUniqueImportTag applied on its own, for two construction times *)
(* of the same file type.                                                  *)
(***************************************************************************)
\* What new Date() may give: getMonth(), getDate(), getHours(), getMinutes()
\* and getSeconds() with one and with two digits.
TagMonths == {0, 10}
TagDates == {1, 21}
TagHours == {1, 12}
TagMinutes == {3, 23}
TagSeconds == {4, 45}

ConstructionTimes ==
  [year : {2024}, month : TagMonths, date : TagDates, hours : TagHours,
   minutes : TagMinutes, seconds : TagSeconds]

\* One more construction time.
NewDate(today) ==
  /\ pc = "constructed"
  /\ Len(arg) < 2
  /\ arg' = Append(arg, today)
  /\ UNCHANGED <<runVars, batchCount, items, pc, ret>>

\* The tag of each construction time.
CallGenerateUniqueImportTag ==
  /\ pc = "constructed"
  /\ Len(arg) = 2
  /\ ret' = [k \in 1..2 |-> _generateUniqueImportTag(fileType, arg[k])]
  /\ pc' = "returned"
  /\ UNCHANGED <<runVars, batchCount, items, arg>>

NextTag ==
  \/ \E today \in ConstructionTimes : NewDate(today)
  \/ CallGenerateUniqueImportTag

SpecTag == InitConstructed /\ [][NextTag]_vars

\* A number written on two digits.
TwoDigits(n) == IF n < 10 THEN <<"0", DigitChar(n)>> ELSE NumToString(n)

\* 'import-<fileType>-' followed by YYYYMMDDHHMMSS.
TagOnFourteenDigits(ft, today) ==
  <<"i", "m", "p", "o", "r", "t", "-">> \o FileTypeString(ft) \o <<"-">>
    \o NumToString(today.year) \o TwoDigits(today.month + 1)
    \o TwoDigits(today.date) \o TwoDigits(today.hours)
    \o TwoDigits(today.minutes) \o TwoDigits(today.seconds)

\* C16: the tag is 'import-<fileType>-' followed by the 14 digits
\* YYYYMMDDHHMMSS of the construction time, and two different construction
\* times of the same file type give different tags.
C16_TagIsFourteenDigits ==
  pc = "returned" =>
    /\ \A k \in 1..2 :
         /\ ret[k] = TagOnFourteenDigits(fileType, arg[k])
         /\ Len(ret[k]) = Len(FileTypeString(fileType)) + 8 + 14
    /\ arg[1] # arg[2] => ret[1] # ret[2]
====
